---- MODULE Spec2Model ----
(***************************************************************************)
(* The read path of nextdb (src/src/nextdb/reader.py): the lazy query      *)
(* builder (NdbTable.__getitem__, NdbColumn, the NdbComputedBoolColumn*    *)
(* predicate classes), the plan compiler (NdbTable._construct_sql) and the *)
(* multi-fragment merge (NdbTable.to_pd).                                  *)
(*                                                                         *)
(* A pd.DataFrame is a record [columns, rows]: columns is the sequence of  *)
(* column names, rows the sequence of rows, each row a function from the   *)
(* column names to values.  A SQL clause is the sequence of its tokens; a  *)
(* string literal contributes its characters as tokens, spliced between    *)
(* two quote tokens exactly as the f-string splices them.                  *)
(***************************************************************************)
EXTENDS Integers, Sequences, FiniteSets, TLC

VARIABLES
    tables,                  \* builder: every NdbTable object constructed so far
    pred,                    \* predicate algebra: the predicate object in hand
    orig,                    \* predicate algebra: the predicate the ~ chain began at
    nots,                    \* predicate algebra: number of ~ applied since orig
    self,                    \* to_pd: the NdbTable being materialized
    pc,                      \* to_pd: "start", "loop", "done" or "error"
    i,                       \* to_pd: loop index of enumerate(reversed(_data_list))
    conn,                    \* to_pd: the duckdb session, "none" or "open"
    select_clause,           \* to_pd: first component of _construct_sql()
    where_clause,            \* to_pd: second component of _construct_sql()
    partition_results,       \* to_pd: list of per-write results
    deduplication_keys_seen, \* to_pd: accumulator data frame
    deletes,                 \* to_pd: accumulator data frame
    result,                  \* to_pd: the returned data frame
    err,                     \* to_pd: the exception raised, "" when none
    visited,                 \* to_pd: manifest positions handled so far, in order
    cancel_requested         \* caller: TRUE once cancellation has been signalled

builder_vars == <<tables>>
pred_vars == <<pred, orig, nots>>
topd_vars == <<self, pc, i, conn, select_clause, where_clause, partition_results,
               deduplication_keys_seen, deletes, result, err, visited>>
env_vars == <<cancel_requested>>
vars == <<tables, pred, orig, nots, self, pc, i, conn, select_clause, where_clause,
          partition_results, deduplication_keys_seen, deletes, result, err, visited,
          cancel_requested>>

(***************************************************************************)
(* Bounds of the model.                                                    *)
(***************************************************************************)
MaxVal == 2          \* column values are 1..MaxVal
MaxFiles == 3        \* longest manifest
MaxRows == 2         \* most rows in one WRITE fragment
MaxTables == 4       \* most NdbTable objects the builder specification creates
MaxNodes == 2        \* most And/Or nodes in a predicate of the algebra specification
MaxNots == 2         \* most ~ applied in a row in the algebra specification
MaxOps == 3
MaxStrLen == 2          \* longest op list of the plan specification

Vals == 1..MaxVal
NULL == 0 - 1        \* the NaN / SQL NULL that pd.concat fills missing columns with

(***************************************************************************)
(* Strings used in internal sql construction.                              *)
(***************************************************************************)
_table_name_placeholder == "[!!__to_be_replaced_table_name__!!]"
_indicator_column_name == "__ndb_reserved_indicator__"

(***************************************************************************)
(* Sequence helpers.                                                       *)
(***************************************************************************)
Range(s) == {s[k] : k \in DOMAIN s}

RECURSIVE Flatten(_)
Flatten(ss) == IF ss = <<>> THEN <<>> ELSE Head(ss) \o Flatten(Tail(ss))

RECURSIVE Join(_, _)
\* sep.join(parts) on token sequences
Join(parts, sep) ==
    IF parts = <<>> THEN <<>>
    ELSE IF Len(parts) = 1 THEN parts[1]
    ELSE parts[1] \o sep \o Join(Tail(parts), sep)

Reverse(s) == [k \in 1..Len(s) |-> s[Len(s) + 1 - k]]

\* clause.replace(_table_name_placeholder, table_name)
Replace(clause, from, to) ==
    [k \in 1..Len(clause) |-> IF clause[k] = from THEN to ELSE clause[k]]

(***************************************************************************)
(* Comparison literals (COMPARISON_LITERAL_TYPE): an int or a str.         *)
(***************************************************************************)
IntLit(n) == [t |-> "int", n |-> n, s |-> <<>>]
StrLit(s) == [t |-> "str", n |-> 0, s |-> s]

(***************************************************************************)
(* Predicate objects.                                                      *)
(***************************************************************************)
\* NdbComputedBoolColumnOpArg(ndb_table, column_name, op, arg); of ndb_table
\* only _version_number is ever read.  arg is the sequence of its literals
\* (one for a scalar, two for between, the items for isin).
OpArg(version_number, column_name, op, arg) ==
    [kind |-> "OpArg", _version_number |-> version_number,
     _column_name |-> column_name, _op |-> op, _arg |-> arg]

\* NdbComputedBoolColumnOpColumn(series_a, series_b, op)
OpColumn(series_a, series_b, op) ==
    [kind |-> "OpColumn", _series_a |-> series_a, _series_b |-> series_b, _op |-> op]

\* NdbColumn._interpret_as_bool
_interpret_as_bool(version_number, column_name) ==
    OpArg(version_number, column_name, "=", <<StrLit(<<"T", "R", "U", "E">>)>>)

\* a plausible slip in the complement table: > and < swapped for each other
InvertOpSwapped(op) ==
    CASE op = "=" -> "!="
      [] op = "!=" -> "="
      [] op = ">" -> "<"
      [] op = "<=" -> ">"
      [] op = "<" -> ">="
      [] op = ">=" -> "<"
      [] op = "BETWEEN" -> "NOT BETWEEN"
      [] op = "NOT BETWEEN" -> "BETWEEN"
      [] op = "IN" -> "NOT IN"
      [] op = "NOT IN" -> "IN"

\* the if/elif chain of NdbComputedBoolColumnOpArg.__invert__
InvertOp(op) ==
    CASE op = "=" -> "!="
      [] op = "!=" -> "="
      [] op = ">" -> "<="
      [] op = "<=" -> ">"
      [] op = "<" -> ">="
      [] op = ">=" -> "<"
      [] op = "BETWEEN" -> "NOT BETWEEN"
      [] op = "NOT BETWEEN" -> "BETWEEN"
      [] op = "IN" -> "NOT IN"
      [] op = "NOT IN" -> "IN"

\* a plausible slip: the connective is kept when negating a combinator
InvertConnectiveKept(op) == op

\* the if/elif of NdbComputedBoolColumnOpColumn.__invert__
InvertConnective(op) == IF op = "AND" THEN "OR" ELSE "AND"

RECURSIVE __invert__(_)
\* ~p
__invert__(p) ==
    IF p.kind = "OpArg"
    THEN OpArg(p._version_number, p._column_name, InvertOp(p._op), p._arg)
    ELSE OpColumn(__invert__(p._series_a), __invert__(p._series_b),
                  InvertConnective(p._op))

\* NdbComputedBoolColumnOpArg._single_arg_to_string
_single_arg_to_string(arg) ==
    IF arg.t = "str" THEN <<"'">> \o arg.s \o <<"'">> ELSE <<ToString(arg.n)>>

\* the three return statements of NdbComputedBoolColumnOpArg._construct_where_clause
LeafClause(p) ==
    IF p._op = "BETWEEN" \/ p._op = "NOT BETWEEN"
    THEN <<"(", _table_name_placeholder, p._column_name, p._op>>
         \o _single_arg_to_string(p._arg[1]) \o <<"AND">>
         \o _single_arg_to_string(p._arg[2]) \o <<")">>
    ELSE IF p._op = "IN" \/ p._op = "NOT IN"
    THEN <<"(", _table_name_placeholder, p._column_name, p._op, "(">>
         \o Join([k \in 1..Len(p._arg) |-> _single_arg_to_string(p._arg[k])], <<",">>)
         \o <<")", ")">>
    ELSE <<"(", _table_name_placeholder, p._column_name, p._op>>
         \o _single_arg_to_string(p._arg[1]) \o <<")">>

RECURSIVE _construct_where_clause(_, _)
\* p._construct_where_clause(ndb_table): the clause, or the ValueError a leaf of
\* another table version raises
_construct_where_clause(p, ndb_table) ==
    IF p.kind = "OpArg"
    THEN IF p._version_number # ndb_table._version_number
         THEN [err |-> "CrossTableReference", clause |-> <<>>]
         ELSE [err |-> "", clause |-> LeafClause(p)]
    ELSE LET a == _construct_where_clause(p._series_a, ndb_table)
             b == _construct_where_clause(p._series_b, ndb_table)
         IN IF a.err # "" THEN a
            ELSE IF b.err # "" THEN b
            ELSE [err |-> "",
                  clause |-> <<"(">> \o a.clause \o <<p._op>> \o b.clause \o <<")">>]


(***************************************************************************)
(* Data frames.                                                            *)
(***************************************************************************)
\* pd.DataFrame()
EmptyFrame == [columns |-> <<>>, rows |-> <<>>]

\* columns of b that a lacks, in b's order
NewColumns(a, b) == SelectSeq(b.columns, LAMBDA c : c \notin Range(a.columns))

\* pd.concat([a, b]): the union of the columns, a's first; a value a row lacks is NaN
Concat(a, b) ==
    LET cols == a.columns \o NewColumns(a, b)
        Widen(r) == [c \in Range(cols) |-> IF c \in DOMAIN r THEN r[c] ELSE NULL]
    IN [columns |-> cols,
        rows |-> [k \in 1..Len(a.rows) |-> Widen(a.rows[k])]
                 \o [k \in 1..Len(b.rows) |-> Widen(b.rows[k])]]

\* df[cols]: the KeyError of a missing column is the caller's to test
Project(df, cols) ==
    [columns |-> cols,
     rows |-> [k \in 1..Len(df.rows) |-> [c \in Range(cols) |-> df.rows[k][c]]]]

\* df.assign(**{name: value}) and d[name] = value
Assign(df, name, value) ==
    LET cols == IF name \in Range(df.columns) THEN df.columns
                ELSE Append(df.columns, name)
    IN [columns |-> cols,
        rows |-> [k \in 1..Len(df.rows) |->
                    [c \in Range(cols) |-> IF c = name THEN value ELSE df.rows[k][c]]]]

(***************************************************************************)
(* Query operations and table handles.                                     *)
(***************************************************************************)
_SelectColumnsOp(columns_to_select) ==
    [kind |-> "_SelectColumnsOp", columns_to_select |-> columns_to_select]

_SelectRowsOp(filter_column) ==
    [kind |-> "_SelectRowsOp", filter_column |-> filter_column]

\* NdbTable.__init__
NdbTable(version_number, table_schema, data_list, ops) ==
    [_version_number |-> version_number, _table_schema |-> table_schema,
     _data_list |-> data_list, _ops |-> ops]

\* a plausible slip: self._ops.append(op) before the new table is built, so that
\* the receiver's list grows too
GetItemInPlace(ts, h, op) ==
    Append([ts EXCEPT ![h]._ops = Append(@, op)],
           NdbTable(ts[h]._version_number, ts[h]._table_schema, ts[h]._data_list,
                    Append(ts[h]._ops, op)))

\* the NdbTable(...) that __getitem__ returns for a list of names or a predicate:
\* the objects that exist afterwards, the new one last
GetItem(ts, h, op) ==
    Append(ts, NdbTable(ts[h]._version_number, ts[h]._table_schema, ts[h]._data_list,
                        ts[h]._ops \o <<op>>))

(***************************************************************************)
(* The plan compiler.                                                      *)
(***************************************************************************)
\* a plausible slip: a projection is compared with the first one, not the latest
NotPreviouslySelectedFirst(next_columns, curr_columns, first_columns) ==
    SelectSeq(next_columns, LAMBDA a : a \notin Range(first_columns))

\* columns_not_previously_selected
NotPreviouslySelected(next_columns, curr_columns, first_columns) ==
    SelectSeq(next_columns, LAMBDA a : a \notin Range(curr_columns))

RECURSIVE FoldColumns(_, _, _)
\* the loop over column_args[1:]: the final curr_columns, or the ValueError
FoldColumns(curr_columns, rest, first_columns) ==
    IF rest = <<>> THEN [err |-> "", columns |-> curr_columns]
    ELSE IF Len(NotPreviouslySelected(Head(rest), curr_columns, first_columns)) > 0
    THEN [err |-> "ProjectionWidensSelection", columns |-> <<>>]
    ELSE FoldColumns(Head(rest), Tail(rest), first_columns)

RECURSIVE FoldFilters(_, _)
\* the loop over row_args[1:], which builds curr_filter_column
FoldFilters(curr_filter_column, rest) ==
    IF rest = <<>> THEN curr_filter_column
    ELSE FoldFilters(OpColumn(curr_filter_column, Head(rest), "AND"), Tail(rest))

column_args(t) ==
    LET sel == SelectSeq(t._ops, LAMBDA op : op.kind = "_SelectColumnsOp")
    IN [k \in 1..Len(sel) |-> sel[k].columns_to_select]

row_args(t) ==
    LET sel == SelectSeq(t._ops, LAMBDA op : op.kind = "_SelectRowsOp")
    IN [k \in 1..Len(sel) |-> sel[k].filter_column]

\* the select_clause half of NdbTable._construct_sql
SelectClause(t) ==
    IF Len(column_args(t)) = 0
    THEN [err |-> "", clause |-> <<"SELECT", _table_name_placeholder, "*">>]
    ELSE LET f == FoldColumns(column_args(t)[1], Tail(column_args(t)), column_args(t)[1])
         IN IF f.err # "" THEN [err |-> f.err, clause |-> <<>>]
            ELSE [err |-> "",
                  clause |-> <<"SELECT">>
                      \o Join([k \in 1..Len(f.columns) |->
                                  <<_table_name_placeholder, f.columns[k]>>], <<",">>)]

\* the where_clause half of NdbTable._construct_sql: curr_filter_column is built
\* and then row_args[0] is what gets compiled
WhereClause(t) ==
    IF Len(row_args(t)) = 0
    THEN [err |-> "", clause |-> <<"TRUE">>]
    ELSE LET curr_filter_column == FoldFilters(row_args(t)[1], Tail(row_args(t)))
         IN _construct_where_clause(row_args(t)[1], t)

\* NdbTable._construct_sql: (select_clause, where_clause) or the ValueError raised
_construct_sql(t) ==
    LET s == SelectClause(t)
        w == WhereClause(t)
    IN IF s.err # "" THEN [err |-> s.err, select_clause |-> <<>>, where_clause |-> <<>>]
       ELSE IF w.err # "" THEN [err |-> w.err, select_clause |-> <<>>, where_clause |-> <<>>]
       ELSE [err |-> "", select_clause |-> s.clause, where_clause |-> w.clause]


(***************************************************************************)
(* The execution engine (duckdb), as far as to_pd's queries use it: a      *)
(* clause is read back from its tokens.  Every column of the modelled      *)
(* fragments holds integers.                                               *)
(***************************************************************************)
\* the integer a numeric token denotes
NumOf(tok) == CHOOSE n \in (Vals \cup {0, MaxVal + 1}) : ToString(n) = tok

\* nesting depth after the first k tokens
RECURSIVE Depth(_, _)
Depth(toks, k) ==
    IF k = 0 THEN 0
    ELSE Depth(toks, k - 1)
         + (IF toks[k] = "(" THEN 1 ELSE IF toks[k] = ")" THEN 0 - 1 ELSE 0)

\* end of the parenthesized group that starts at token 1
GroupEnd(toks) == CHOOSE k \in 1..Len(toks) :
    /\ Depth(toks, k) = 0
    /\ \A j \in 1..(k - 1) : Depth(toks, j) > 0

\* the literals of a leaf, the tokens after its operator
LeafLits(op, rest) ==
    IF op = "BETWEEN" \/ op = "NOT BETWEEN" THEN <<NumOf(rest[1]), NumOf(rest[3])>>
    ELSE IF op = "IN" \/ op = "NOT IN"
    THEN [k \in 1..(Len(rest) \div 2) |-> NumOf(rest[2 * k])]
    ELSE <<NumOf(rest[1])>>

\* one comparison on a non-NULL integer
Compare(x, op, lits) ==
    CASE op = "=" -> x = lits[1]
      [] op = "!=" -> x # lits[1]
      [] op = ">" -> x > lits[1]
      [] op = "<=" -> x <= lits[1]
      [] op = "<" -> x < lits[1]
      [] op = ">=" -> x >= lits[1]
      [] op = "BETWEEN" -> lits[1] <= x /\ x <= lits[2]
      [] op = "NOT BETWEEN" -> ~(lits[1] <= x /\ x <= lits[2])
      [] op = "IN" -> x \in Range(lits)
      [] op = "NOT IN" -> x \notin Range(lits)

RECURSIVE EvalWhere(_, _)
\* the truth of a rendered where clause on row r of the aliased relation
EvalWhere(toks, r) ==
    IF toks = <<"TRUE">> THEN TRUE
    ELSE LET inner == SubSeq(toks, 2, Len(toks) - 1)
         IN IF inner[1] = "("
            THEN LET k == GroupEnd(inner)
                     a == EvalWhere(SubSeq(inner, 1, k), r)
                     b == EvalWhere(SubSeq(inner, k + 2, Len(inner)), r)
                 IN IF inner[k + 1] = "AND" THEN a /\ b ELSE a \/ b
            ELSE Compare(r[inner[2]], inner[3],
                         LeafLits(inner[3], SubSeq(inner, 4, Len(inner))))

\* the columns a rendered select clause yields over relation t
SelectColumns(toks, t) ==
    IF Len(toks) = 3 /\ toks[3] = "*" THEN t.columns
    ELSE [k \in 1..(Len(toks) \div 3) |-> toks[3 * k]]

\* no row of the accumulator equals r on every join column (LEFT JOIN ... ON
\* ... WHERE indicator IS NULL); an equality with a NULL operand is not true
Unmatched(r, acc, on) ==
    ~\E k \in 1..Len(acc.rows) :
        \A c \in Range(on) : acc.rows[k][c] # NULL /\ r[c] = acc.rows[k][c]

\* conn.execute(sql); conn.fetchdf() for the query to_pd builds over fragment t:
\* ds and pks are the registered accumulators, <<>> standing for "not joined"
Execute(select, where, t, ds, ds_on, pks, pks_on, join_ds, join_pks) ==
    IF \/ join_ds /\ ds_on = <<>>
       \/ join_pks /\ pks_on = <<>>
       \/ "'" \in Range(where)
       \/ ~(Range(SelectColumns(select, t)) \subseteq Range(t.columns))
       \/ join_ds /\ ~(Range(ds_on) \subseteq Range(t.columns))
       \/ join_pks /\ ~(Range(pks_on) \subseteq Range(t.columns))
    THEN [err |-> "EngineError", df |-> EmptyFrame]
    ELSE LET keep == SelectSeq(t.rows, LAMBDA r :
                        /\ (join_ds => Unmatched(r, ds, ds_on))
                        /\ (join_pks => Unmatched(r, pks, pks_on))
                        /\ EvalWhere(where, r))
         IN [err |-> "",
             df |-> Project([columns |-> t.columns, rows |-> keep],
                            SelectColumns(select, t))]


(***************************************************************************)
(* NdbTable.to_pd, one action per statement group and per loop iteration.  *)
(* A DataFileEntry is modelled with the contents of the parquet file its   *)
(* data_file_name points at: [data_file_type, frame].                      *)
(***************************************************************************)
DataFileEntry(data_file_type, frame) ==
    [data_file_type |-> data_file_type, frame |-> frame]

\* TableSchema.deduplication_keys: None, or a list of column names
NoKeys == [is_none |-> TRUE, keys |-> <<>>]
Keys(ks) == [is_none |-> FALSE, keys |-> ks]

deduplication_keys == self._table_schema.deduplication_keys

\* a plausible slip: the manifest is walked in its own order, oldest first
TraversalForward(data_list) == data_list

\* reversed(self._data_list)
Traversal(data_list) == Reverse(data_list)

\* the entry of loop iteration i, and its position in the manifest (1 = oldest)
data_file == Traversal(self._data_list)[i + 1]
Position == CHOOSE k \in 1..Len(self._data_list) :
                Traversal([j \in 1..Len(self._data_list) |-> j])[i + 1] = k

\* conn = duckdb.connect(":memory:"); select_clause, where_clause =
\* self._construct_sql(); the accumulators
ToPdStart ==
    /\ pc = "start"
    /\ conn' = "open"
    /\ LET c == _construct_sql(self)
       IN /\ err' = c.err
          /\ pc' = IF c.err = "" THEN "loop" ELSE "error"
          /\ select_clause' = c.select_clause
          /\ where_clause' = c.where_clause
    /\ partition_results' = <<>>
    /\ deduplication_keys_seen' = EmptyFrame
    /\ deletes' = EmptyFrame
    /\ i' = 0
    /\ UNCHANGED <<self, result, visited, builder_vars, pred_vars, env_vars>>

\* the frame whose deduplication_keys columns extend deduplication_keys_seen
SeenSource(df, t) == df

\* a plausible slip: the keys of the fragment replace the accumulator
ExtendSeenOverwrite(seen, keys_df) == keys_df

\* deduplication_keys_seen = pd.concat([deduplication_keys_seen, keys_df])
ExtendSeen(seen, keys_df) == Concat(seen, keys_df)

\* a plausible slip: the pks join is taken only from the second seen key on
JoinSeenAfterFirst(pks) == Len(pks.rows) > 1

\* the test "len(deduplication_keys_seen) == 0" that picks the queries
\* without the pks join
JoinSeen(pks) == Len(pks.rows) # 0

\* the test "len(deletes) == 0" that picks the query without the ds join
JoinDeletes(ds) == Len(ds.rows) # 0

\* the body of "if data_file.data_file_type == 'write'"
ToPdWrite ==
    /\ pc = "loop"
    /\ i < Len(self._data_list)
    /\ data_file.data_file_type = "write"
    /\ LET table_name == "t" \o ToString(i)
           t == data_file.frame
           q == Execute(Replace(select_clause, _table_name_placeholder, table_name),
                        Replace(where_clause, _table_name_placeholder, table_name),
                        t,
                        deletes,
                        SelectSeq(deletes.columns,
                                  LAMBDA c : c # _indicator_column_name),
                        deduplication_keys_seen,
                        deduplication_keys.keys,
                        JoinDeletes(deletes),
                        JoinSeen(deduplication_keys_seen))
           src == SeenSource(q.df, t)
       IN IF q.err # ""
          THEN /\ pc' = "error"
               /\ err' = q.err
               /\ UNCHANGED <<partition_results, deduplication_keys_seen, i, visited>>
          ELSE IF /\ ~deduplication_keys.is_none
                  /\ ~(Range(deduplication_keys.keys) \subseteq Range(src.columns))
          THEN \* df[deduplication_keys] raises KeyError
               /\ pc' = "error"
               /\ err' = "KeyError"
               /\ partition_results' =
                      Append(partition_results, [pos |-> Position, df |-> q.df])
               /\ UNCHANGED <<deduplication_keys_seen, i, visited>>
          ELSE /\ partition_results' =
                      Append(partition_results, [pos |-> Position, df |-> q.df])
               /\ deduplication_keys_seen' =
                      IF deduplication_keys.is_none THEN deduplication_keys_seen
                      ELSE ExtendSeen(deduplication_keys_seen,
                                      Assign(Project(src, deduplication_keys.keys),
                                             _indicator_column_name, 1))
               /\ visited' = Append(visited, Position)
               /\ i' = i + 1
               /\ UNCHANGED <<pc, err>>
    /\ UNCHANGED <<self, conn, select_clause, where_clause, deletes, result,
                   builder_vars, pred_vars, env_vars>>

\* a plausible slip: the columns are compared before the indicator column is
\* assigned to the fragment
ColumnsDifferBeforeIndicator(ds, d) ==
    Len(ds.rows) > 0 /\ Range(ds.columns) # Range(d.columns) \ {_indicator_column_name}

\* len(deletes) > 0 and sorted(deletes.columns) != sorted(d.columns)
ColumnsDiffer(ds, d) ==
    Len(ds.rows) > 0 /\ Range(ds.columns) # Range(d.columns)

\* the body of "elif data_file.data_file_type == 'delete'"
ToPdDelete ==
    /\ pc = "loop"
    /\ i < Len(self._data_list)
    /\ data_file.data_file_type = "delete"
    /\ LET d == Assign(data_file.frame, _indicator_column_name, 1)
       IN IF ColumnsDiffer(deletes, d)
          THEN /\ pc' = "error"
               /\ err' = "HeterogeneousDeletes"
               /\ UNCHANGED <<deletes, i, visited>>
          ELSE /\ deletes' = Concat(deletes, d)
               /\ visited' = Append(visited, Position)
               /\ i' = i + 1
               /\ UNCHANGED <<pc, err>>
    /\ UNCHANGED <<self, conn, select_clause, where_clause, partition_results,
                   deduplication_keys_seen, result, builder_vars, pred_vars, env_vars>>

\* a plausible slip: an entry of another kind is passed over, not rejected
ToPdOtherSkipped ==
    /\ pc = "loop"
    /\ i < Len(self._data_list)
    /\ data_file.data_file_type \notin {"write", "delete"}
    /\ visited' = Append(visited, Position)
    /\ i' = i + 1
    /\ UNCHANGED <<self, pc, err, conn, select_clause, where_clause,
                   partition_results, deduplication_keys_seen, deletes, result,
                   builder_vars, pred_vars, env_vars>>

\* the else branch: raise ValueError("data_file_type ... is not supported")
ToPdOther ==
    /\ pc = "loop"
    /\ i < Len(self._data_list)
    /\ data_file.data_file_type \notin {"write", "delete"}
    /\ pc' = "error"
    /\ err' = "UnknownFragmentKind"
    /\ UNCHANGED <<self, i, conn, select_clause, where_clause, partition_results,
                   deduplication_keys_seen, deletes, result, visited,
                   builder_vars, pred_vars, env_vars>>

RECURSIVE ConcatAll(_)
\* pd.concat(frames, ignore_index=True)
ConcatAll(frames) ==
    IF Len(frames) = 1 THEN frames[1]
    ELSE Concat(frames[1], ConcatAll(Tail(frames)))

\* a plausible slip: the results are concatenated as collected, newest first
RestoreOrderSkipped(results) == results

\* partition_results.reverse()
RestoreOrder(results) == Reverse(results)

\* the statements after the loop
ToPdFinish ==
    /\ pc = "loop"
    /\ i = Len(self._data_list)
    /\ partition_results' = RestoreOrder(partition_results)
    /\ result' = IF Len(partition_results') = 0 THEN EmptyFrame
                 ELSE ConcatAll([k \in 1..Len(partition_results') |->
                                    partition_results'[k].df])
    /\ pc' = "done"
    /\ UNCHANGED <<self, i, conn, select_clause, where_clause,
                   deduplication_keys_seen, deletes, err, visited,
                   builder_vars, pred_vars, env_vars>>

ToPdNext ==
    \/ ToPdStart
    \/ ToPdWrite
    \/ ToPdDelete
    \/ ToPdOther
    \/ ToPdFinish

\* the caller signals cancellation while to_pd is running; to_pd has no
\* statement that reads the signal
Cancel ==
    /\ pc \in {"start", "loop"}
    /\ ~cancel_requested
    /\ cancel_requested' = TRUE
    /\ UNCHANGED <<builder_vars, pred_vars, topd_vars>>


(***************************************************************************)
(* The builder: NdbTable.__getitem__ on the objects built so far.          *)
(***************************************************************************)
\* t[['column1', 'column2']]
GetItemColumns(h, cols) ==
    /\ Len(tables) < MaxTables
    /\ tables' = GetItem(tables, h, _SelectColumnsOp(cols))
    /\ UNCHANGED <<pred_vars, topd_vars, env_vars>>

\* t[p] for a computed bool column p
GetItemFilter(h, p) ==
    /\ Len(tables) < MaxTables
    /\ tables' = GetItem(tables, h, _SelectRowsOp(p))
    /\ UNCHANGED <<pred_vars, topd_vars, env_vars>>

\* t[t2['bool_column']]: self[item._interpret_as_bool()]
GetItemColumn(h, h2, c) ==
    /\ Len(tables) < MaxTables
    /\ tables' = GetItem(tables, h,
                         _SelectRowsOp(_interpret_as_bool(tables[h2]._version_number, c)))
    /\ UNCHANGED <<pred_vars, topd_vars, env_vars>>

(***************************************************************************)
(* The predicate algebra: ~, & and | on the predicate in hand.             *)
(***************************************************************************)
RECURSIVE Nodes(_)
Nodes(p) == IF p.kind = "OpArg" THEN 0 ELSE 1 + Nodes(p._series_a) + Nodes(p._series_b)

\* ~pred
PredInvert ==
    /\ nots < MaxNots
    /\ pred' = __invert__(pred)
    /\ nots' = nots + 1
    /\ UNCHANGED <<orig, builder_vars, topd_vars, env_vars>>

\* pred & q, q & pred
PredAnd(q, left) ==
    /\ Nodes(pred) < MaxNodes
    /\ pred' = IF left THEN OpColumn(pred, q, "AND") ELSE OpColumn(q, pred, "AND")
    /\ orig' = pred'
    /\ nots' = 0
    /\ UNCHANGED <<builder_vars, topd_vars, env_vars>>

\* pred | q, q | pred
PredOr(q, left) ==
    /\ Nodes(pred) < MaxNodes
    /\ pred' = IF left THEN OpColumn(pred, q, "OR") ELSE OpColumn(q, pred, "OR")
    /\ orig' = pred'
    /\ nots' = 0
    /\ UNCHANGED <<builder_vars, topd_vars, env_vars>>

(***************************************************************************)
(* Inputs.                                                                 *)
(***************************************************************************)
SeqsUpTo(S, n) == UNION {[1..k -> S] : k \in 0..n}

Cols == <<"id", "v">>
Row(id, v) == [id |-> id, v |-> v]
Rows == {Row(a, b) : a \in Vals, b \in Vals}

Frame(columns, rows) == [columns |-> columns, rows |-> rows]

\* WRITE fragments: up to MaxRows rows over the columns id and v
WriteFrames == {Frame(Cols, rs) : rs \in SeqsUpTo(Rows, MaxRows)}

\* DELETE fragments: at most one key tuple, over id or over v
DeleteFrames ==
    {Frame(<<"id">>, rs) : rs \in SeqsUpTo({[id |-> a] : a \in Vals}, 1)}
    \cup {Frame(<<"v">>, rs) : rs \in SeqsUpTo({[v |-> a] : a \in Vals}, 1)}

Entries ==
    {DataFileEntry("write", f) : f \in WriteFrames}
    \cup {DataFileEntry("delete", f) : f \in DeleteFrames}
    \cup {DataFileEntry("compact", EmptyFrame)}

Schemas == {[deduplication_keys |-> k] : k \in {NoKeys, Keys(<<>>), Keys(<<"id">>)}}

\* the comparisons NdbColumn offers, on column c of the table of version ver
Leaves(ver, c) ==
    {OpArg(ver, c, op, <<IntLit(1)>>) : op \in {"=", "!=", ">", "<", ">=", "<="}}
    \cup {OpArg(ver, c, "BETWEEN", <<IntLit(1), IntLit(2)>>),
          OpArg(ver, c, "IN", <<IntLit(1), IntLit(2)>>)}

IdleBuilder == tables = <<>>
IdlePred == pred = OpArg(1, "v", "=", <<IntLit(1)>>) /\ orig = pred /\ nots = 0
IdleToPd ==
    /\ self = NdbTable(1, [deduplication_keys |-> NoKeys], <<>>, <<>>)
    /\ pc = "idle"
    /\ i = 0
    /\ conn = "none"
    /\ select_clause = <<>>
    /\ where_clause = <<>>
    /\ partition_results = <<>>
    /\ deduplication_keys_seen = EmptyFrame
    /\ deletes = EmptyFrame
    /\ result = EmptyFrame
    /\ err = ""
    /\ visited = <<>>
    /\ cancel_requested = FALSE

StartToPd(t) ==
    /\ self = t
    /\ pc = "start"
    /\ i = 0
    /\ conn = "none"
    /\ select_clause = <<>>
    /\ where_clause = <<>>
    /\ partition_results = <<>>
    /\ deduplication_keys_seen = EmptyFrame
    /\ deletes = EmptyFrame
    /\ result = EmptyFrame
    /\ err = ""
    /\ visited = <<>>
    /\ cancel_requested = FALSE

(***************************************************************************)
(* SpecMerge: to_pd over every manifest of up to MaxFiles entries, with    *)
(* and without deduplication keys, under a few op lists.                   *)
(***************************************************************************)
MergeOps ==
    {<<>>,
     <<_SelectRowsOp(OpArg(1, "v", "=", <<IntLit(1)>>))>>,
     <<_SelectColumnsOp(<<"v">>)>>}

MergeInit ==
    /\ IdleBuilder
    /\ IdlePred
    /\ \E schema \in Schemas, data_list \in SeqsUpTo(Entries, MaxFiles), ops \in MergeOps :
           StartToPd(NdbTable(1, schema, data_list, ops))

SpecMerge == MergeInit /\ [][ToPdNext]_vars


(***************************************************************************)
(* SpecPlan: to_pd of a table of version 1 under every op list of up to    *)
(* MaxOps ops, over two fixed manifests.                                   *)
(***************************************************************************)
PlanOps ==
    {_SelectColumnsOp(cs) : cs \in {<<"id", "v">>, <<"v", "id">>, <<"id">>, <<"v">>}}
    \cup {_SelectRowsOp(p) : p \in
            {OpArg(1, "v", "=", <<IntLit(1)>>),
             OpArg(1, "id", "!=", <<IntLit(1)>>),
             OpArg(2, "v", "=", <<IntLit(1)>>),
             OpColumn(OpArg(1, "v", "<=", <<IntLit(2)>>),
                      OpArg(2, "id", "=", <<IntLit(1)>>), "OR")}}

PlanManifests ==
    {<<DataFileEntry("write", Frame(Cols, <<Row(1, 1), Row(2, 2)>>)),
       DataFileEntry("delete", Frame(<<"id">>, <<[id |-> 2]>>)),
       DataFileEntry("write", Frame(Cols, <<Row(1, 2), Row(2, 1)>>))>>,
     <<DataFileEntry("compact", EmptyFrame),
       DataFileEntry("write", Frame(Cols, <<Row(1, 1)>>))>>}

PlanInit ==
    /\ IdleBuilder
    /\ IdlePred
    /\ \E data_list \in PlanManifests, ops \in SeqsUpTo(PlanOps, MaxOps) :
           StartToPd(NdbTable(1, [deduplication_keys |-> NoKeys], data_list, ops))

SpecPlan == PlanInit /\ [][ToPdNext]_vars

(***************************************************************************)
(* SpecProject: to_pd with and without deduplication keys under column     *)
(* selections that keep or drop the key column, with or without a row      *)
(* selection, over manifests of WRITEs of at most one row and DELETEs.     *)
(***************************************************************************)
ProjectOps ==
    {<<>>,
     <<_SelectColumnsOp(<<"id", "v">>)>>,
     <<_SelectColumnsOp(<<"id">>)>>,
     <<_SelectColumnsOp(<<"v">>)>>,
     <<_SelectRowsOp(OpArg(1, "v", "=", <<IntLit(1)>>)), _SelectColumnsOp(<<"id">>)>>}

ProjectEntries ==
    {DataFileEntry("write", Frame(Cols, rs)) : rs \in SeqsUpTo(Rows, 1)}
    \cup {DataFileEntry("delete", f) : f \in DeleteFrames}

ProjectInit ==
    /\ IdleBuilder
    /\ IdlePred
    /\ \E k \in {NoKeys, Keys(<<"id">>)},
          data_list \in SeqsUpTo(ProjectEntries, MaxFiles),
          ops \in ProjectOps :
           StartToPd(NdbTable(1, [deduplication_keys |-> k], data_list, ops))

ProjectNext ==
    \/ ToPdStart
    \/ ToPdWrite
    \/ ToPdDelete
    \/ ToPdFinish

SpecProject == ProjectInit /\ [][ProjectNext]_vars

(***************************************************************************)
(* SpecLiteral: the clause of one leaf whose arguments are strings over a  *)
(* letter and the single quote.                                            *)
(***************************************************************************)
Chars == {"a", "'"}
Strings == SeqsUpTo(Chars, MaxStrLen)

LiteralLeaves ==
    {OpArg(1, "v", op, <<StrLit(x)>>) : op \in {"=", "!="}, x \in Strings}
    \cup {OpArg(1, "v", op, <<StrLit(x), StrLit(y)>>) :
              op \in {"BETWEEN", "NOT BETWEEN", "IN", "NOT IN"},
              x \in Strings, y \in Strings}
    \cup {OpArg(1, "v", op, <<IntLit(1), StrLit(x)>>) : op \in {"IN"}, x \in Strings}

LiteralInit ==
    /\ IdleBuilder
    /\ IdleToPd
    /\ pred \in LiteralLeaves
    /\ orig = pred
    /\ nots = 0

\* pred._construct_where_clause(self), as row selection compiles it
RenderPred ==
    /\ pc = "idle"
    /\ LET c == _construct_where_clause(pred, self)
       IN /\ where_clause' = c.clause
          /\ err' = c.err
    /\ pc' = "rendered"
    /\ UNCHANGED <<self, i, conn, select_clause, partition_results,
                   deduplication_keys_seen, deletes, result, visited,
                   builder_vars, pred_vars, env_vars>>

SpecLiteral == LiteralInit /\ [][RenderPred]_vars

(***************************************************************************)
(* SpecCancel: to_pd over manifests of two kinds of fragment, with the     *)
(* caller free to signal cancellation at any point of the traversal.       *)
(***************************************************************************)
CancelEntries ==
    {DataFileEntry("write", Frame(Cols, <<Row(1, 1)>>)),
     DataFileEntry("delete", Frame(<<"id">>, <<[id |-> 1]>>))}

CancelInit ==
    /\ IdleBuilder
    /\ IdlePred
    /\ \E k \in {NoKeys, Keys(<<"id">>)}, data_list \in SeqsUpTo(CancelEntries, MaxFiles) :
           StartToPd(NdbTable(1, [deduplication_keys |-> k], data_list, <<>>))

CancelNext ==
    \/ ToPdStart
    \/ ToPdWrite
    \/ ToPdDelete
    \/ ToPdFinish
    \/ Cancel

SpecCancel == CancelInit /\ [][CancelNext]_vars

(***************************************************************************)
(* SpecPred: predicates grown from the comparisons of NdbColumn by &, |    *)
(* and ~.                                                                  *)
(***************************************************************************)
PredOperands ==
    {OpArg(1, "id", "=", <<IntLit(1)>>),
     OpArg(1, "id", "BETWEEN", <<IntLit(1), IntLit(2)>>),
     OpArg(1, "id", "IN", <<IntLit(1), IntLit(2)>>)}

PredInit ==
    /\ IdleBuilder
    /\ IdleToPd
    /\ pred \in Leaves(1, "v")
    /\ orig = pred
    /\ nots = 0

PredNext ==
    \/ PredInvert
    \/ \E q \in PredOperands, left \in BOOLEAN : PredAnd(q, left)
    \/ \E q \in PredOperands, left \in BOOLEAN : PredOr(q, left)

SpecPred == PredInit /\ [][PredNext]_vars

(***************************************************************************)
(* SpecBuilder: __getitem__ applied, in any order, to the table read() has *)
(* returned and to every table built from it.                              *)
(***************************************************************************)
BuilderLeaves(ver) ==
    {OpArg(ver, "v", "=", <<IntLit(1)>>),
     OpArg(ver, "v", "IN", <<IntLit(1), IntLit(2)>>)}

\* two tables read() has returned, of two table versions
BuilderInit ==
    /\ IdlePred
    /\ IdleToPd
    /\ tables = <<NdbTable(1, [deduplication_keys |-> Keys(<<"id">>)],
                           <<DataFileEntry("write", Frame(Cols, <<Row(1, 1)>>))>>,
                           <<>>),
                  NdbTable(2, [deduplication_keys |-> NoKeys],
                           <<DataFileEntry("write", Frame(Cols, <<Row(1, 1)>>)),
                             DataFileEntry("delete", Frame(<<"id">>, <<[id |-> 1]>>))>>,
                           <<>>)>>

BuilderNext ==
    \/ \E h \in 1..Len(tables), cols \in {<<"id">>, <<"v", "id">>} :
           GetItemColumns(h, cols)
    \/ \E h \in 1..Len(tables), h2 \in 1..Len(tables) :
           \E p \in BuilderLeaves(tables[h2]._version_number) : GetItemFilter(h, p)
    \/ \E h \in 1..Len(tables), h2 \in 1..Len(tables) : GetItemColumn(h, h2, "v")

SpecBuilder == BuilderInit /\ [][BuilderNext]_vars


(***************************************************************************)
(* What the claims speak of.                                               *)
(***************************************************************************)
Manifest == self._data_list
IsWrite(j) == Manifest[j].data_file_type = "write"
IsDelete(j) == Manifest[j].data_file_type = "delete"

\* D is present: the schema names at least one deduplication-key column
DPresent == ~deduplication_keys.is_none /\ deduplication_keys.keys # <<>>

\* r and q agree on every column of cols
Agree(r, q, cols) == \A c \in Range(cols) : r[c] = q[c]

\* row r satisfies the compiled predicate
Satisfies(r) == EvalWhere(where_clause, r)

\* (a) fails: a DELETE after position p holds a key tuple matching r
DeletedAfter(r, p) ==
    \E j \in (p + 1)..Len(Manifest) :
        /\ IsDelete(j)
        /\ \E k \in 1..Len(Manifest[j].frame.rows) :
               Agree(r, Manifest[j].frame.rows[k], Manifest[j].frame.columns)

\* (b) fails: a WRITE after position p holds a row with r's deduplication key
ShadowedAfter(r, p) ==
    /\ DPresent
    /\ \E j \in (p + 1)..Len(Manifest) :
           /\ IsWrite(j)
           /\ \E k \in 1..Len(Manifest[j].frame.rows) :
                  Agree(r, Manifest[j].frame.rows[k], deduplication_keys.keys)

\* the rows of the WRITE at position p that the merge semantics keeps
Surviving(p) ==
    SelectSeq(Manifest[p].frame.rows,
              LAMBDA r : Satisfies(r) /\ ~DeletedAfter(r, p) /\ ~ShadowedAfter(r, p))

\* the rows of a frame over the columns cols
Over(rows, cols) == [k \in 1..Len(rows) |-> [c \in Range(cols) |-> rows[k][c]]]

\* C1: once materialize() has returned, the rows it took from the WRITE at each
\* position are exactly the rows of that WRITE that satisfy the predicate, match
\* no key tuple of a later DELETE and, with D present, share their key with no
\* row of a later WRITE.
C1_ResultIsSurvivors ==
    pc = "done" =>
        \A k \in 1..Len(partition_results) :
            partition_results[k].df.rows =
                Over(Surviving(partition_results[k].pos), partition_results[k].df.columns)

\* the key tuple of r is recorded in deduplication_keys_seen
InSeen(r) ==
    \E k \in 1..Len(deduplication_keys_seen.rows) :
        Agree(r, deduplication_keys_seen.rows[k], deduplication_keys.keys)

\* C2: with D present, after a WRITE has been processed the key tuple of each of
\* its rows that fails the predicate is in Seen, and no row of an older WRITE with
\* that key tuple is in the result.
C2_FilteredRowsAreSeen ==
    (pc \in {"loop", "done"} /\ DPresent) =>
        \A p \in Range(visited) :
            IsWrite(p) =>
                \A k \in 1..Len(Manifest[p].frame.rows) :
                    ~Satisfies(Manifest[p].frame.rows[k]) =>
                        /\ InSeen(Manifest[p].frame.rows[k])
                        /\ \A m \in 1..Len(partition_results) :
                               partition_results[m].pos < p =>
                                   \A n \in 1..Len(partition_results[m].df.rows) :
                                       ~Agree(Manifest[p].frame.rows[k],
                                              partition_results[m].df.rows[n],
                                              deduplication_keys.keys)

RECURSIVE HasForeignLeaf(_, _)
\* some leaf of p carries a version number other than ver
HasForeignLeaf(p, ver) ==
    IF p.kind = "OpArg" THEN p._version_number # ver
    ELSE HasForeignLeaf(p._series_a, ver) \/ HasForeignLeaf(p._series_b, ver)

ForeignLeafInOps ==
    \E k \in 1..Len(row_args(self)) :
        HasForeignLeaf(row_args(self)[k], self._version_number)

\* the clause R1 AND R2 ... AND Rk, left-associative, TRUE when k = 0
Conjunction ==
    IF Len(row_args(self)) = 0 THEN <<"TRUE">>
    ELSE _construct_where_clause(
             FoldFilters(row_args(self)[1], Tail(row_args(self))), self).clause

\* C3: the compiled predicate clause is the left-associative conjunction of all
\* the RestrictRows predicates (TRUE when there is none): it holds of a row exactly
\* when that conjunction does, and every row that materialize() returns satisfies
\* each of the predicates.
C3_ClauseIsConjunction ==
    (pc \in {"loop", "done"} /\ ~ForeignLeafInOps) =>
        /\ \A r \in Rows : EvalWhere(where_clause, r) <=> EvalWhere(Conjunction, r)
        /\ (pc = "done" /\ Len(column_args(self)) = 0) =>
               \A n \in 1..Len(result.rows), k \in 1..Len(row_args(self)) :
                   EvalWhere(_construct_where_clause(row_args(self)[k], self).clause,
                             result.rows[n])

\* C4: when a leaf of any RestrictRows predicate carries another VersionId than
\* the handle, compiling fails with CrossTableReference (the projection check,
\* which comes first, aside) and no relation is returned.
C4_ForeignLeafFails ==
    (pc # "start" /\ ForeignLeafInOps /\ err # "ProjectionWidensSelection") =>
        (pc = "error" /\ err = "CrossTableReference")

\* some projection after the first names a column an earlier projection dropped
Widens ==
    \E k \in 2..Len(column_args(self)) : \E j \in 1..(k - 1) :
        \E c \in Range(column_args(self)[k]) : c \notin Range(column_args(self)[j])

LastProjection ==
    IF Len(column_args(self)) = 0 THEN Cols
    ELSE column_args(self)[Len(column_args(self))]

\* C5: the plan compiler fails with ProjectionWidensSelection exactly when a later
\* projection names a column an earlier one dropped; otherwise the projection
\* clause selects the columns of the last projection in its order, or all columns.
C5_ProjectionMonotone ==
    pc # "start" =>
        /\ (err = "ProjectionWidensSelection") <=> Widens
        /\ (pc \in {"loop", "done"}) =>
               SelectColumns(select_clause, Frame(Cols, <<>>)) = LastProjection

\* a third projection is refused for a column the second one dropped
C5_Witness ==
    /\ pc = "error"
    /\ err = "ProjectionWidensSelection"
    /\ Len(column_args(self)) = 3
    /\ Range(column_args(self)[2]) \subseteq Range(column_args(self)[1])
    /\ Range(column_args(self)[3]) \subseteq Range(column_args(self)[1])

\* C6: a builder operation leaves every existing handle as it was and adds one
\* handle, which has the version number, schema and manifest of the handle it was
\* applied to and that handle's op list with one op appended.
C6_BuilderIsPure ==
    [][/\ Len(tables') = Len(tables) + 1
       /\ \A h \in 1..Len(tables) : tables'[h] = tables[h]
       /\ \E h \in 1..Len(tables) :
              LET new == tables'[Len(tables')]
              IN /\ new._version_number = tables[h]._version_number
                 /\ new._table_schema = tables[h]._table_schema
                 /\ new._data_list = tables[h]._data_list
                 /\ Len(new._ops) = Len(tables[h]._ops) + 1
                 /\ SubSeq(new._ops, 1, Len(tables[h]._ops)) = tables[h]._ops]_vars

\* one handle was extended twice, by a projection and by a restriction taken from
\* a table of another version, and is still the handle read() returned
C6_Witness ==
    \E h \in 1..Len(tables), a \in 1..Len(tables), b \in 1..Len(tables) :
        /\ a # b
        /\ tables[h]._ops = <<>>
        /\ tables[a]._version_number = tables[h]._version_number
        /\ tables[b]._version_number = tables[h]._version_number
        /\ Len(tables[a]._ops) = 1
        /\ Len(tables[b]._ops) = 1
        /\ tables[a]._ops[1].kind = "_SelectColumnsOp"
        /\ tables[b]._ops[1].kind = "_SelectRowsOp"
        /\ tables[b]._ops[1].filter_column._version_number # tables[h]._version_number

\* the clause of a predicate, compiled for the table of version 1
ClauseOf(p) == _construct_where_clause(p, NdbTable(1, [deduplication_keys |-> NoKeys],
                                                   <<>>, <<>>)).clause

\* C7: a predicate negated twice is the predicate itself, and compiles to the
\* same clause.
C7_DoubleNegation ==
    nots = 2 => (pred = orig /\ ClauseOf(pred) = ClauseOf(orig))

\* a tree of two combinators has been negated twice
C7_Witness == nots = 2 /\ Nodes(orig) = 2

\* the complement pairs of the comparison operators
Complements ==
    {<<"=", "!=">>, <<"!=", "=">>, <<"<", ">=">>, <<">=", "<">>, <<"<=", ">">>,
     <<">", "<=">>, <<"BETWEEN", "NOT BETWEEN">>, <<"NOT BETWEEN", "BETWEEN">>,
     <<"IN", "NOT IN">>, <<"NOT IN", "IN">>}

RECURSIVE IsNegationOf(_, _)
\* q is the structural negation of p
IsNegationOf(q, p) ==
    IF p.kind = "OpArg"
    THEN /\ q.kind = "OpArg"
         /\ q._version_number = p._version_number
         /\ q._column_name = p._column_name
         /\ q._arg = p._arg
         /\ <<p._op, q._op>> \in Complements
    ELSE /\ q.kind = "OpColumn"
         /\ (p._op = "AND" => q._op = "OR")
         /\ (p._op = "OR" => q._op = "AND")
         /\ IsNegationOf(q._series_a, p._series_a)
         /\ IsNegationOf(q._series_b, p._series_b)

\* C8: ~ is structural negation: a leaf keeps column and argument and takes the
\* complement operator, And becomes Or of the negations and Or becomes And of the
\* negations; NOT(A AND B) compiles to the clause of NOT(A) OR NOT(B).
C8_StructuralNegation ==
    nots = 1 =>
        /\ IsNegationOf(pred, orig)
        /\ (orig.kind = "OpColumn" /\ orig._op = "AND") =>
               ClauseOf(pred) = ClauseOf(OpColumn(__invert__(orig._series_a),
                                                  __invert__(orig._series_b), "OR"))

\* a conjunction whose left operand is a disjunction has been negated
C8_Witness ==
    /\ nots = 1
    /\ orig.kind = "OpColumn"
    /\ orig._op = "AND"
    /\ orig._series_a.kind = "OpColumn"
    /\ orig._series_a._op = "OR"

\* C9: the manifest entries are handled once each, newest first, and the result
\* holds the rows kept from each WRITE in manifest order, oldest first.
C9_NewestFirstThenManifestOrder ==
    /\ \A k \in 1..Len(visited) : visited[k] = Len(Manifest) + 1 - k
    /\ pc = "done" =>
           /\ Len(visited) = Len(Manifest)
           /\ \A k \in 1..(Len(partition_results) - 1) :
                  partition_results[k].pos < partition_results[k + 1].pos
           /\ result.rows =
                  Flatten([k \in 1..Len(partition_results) |-> partition_results[k].df.rows])

\* two WRITEs with a DELETE between them each contributed rows
C9_Witness ==
    /\ pc = "done"
    /\ Len(Manifest) = 3
    /\ IsDelete(2)
    /\ Len(partition_results) = 2
    /\ partition_results[1].df.rows # <<>>
    /\ partition_results[2].df.rows # <<>>
    /\ partition_results[1].df.rows # partition_results[2].df.rows

\* C10: two DELETE fragments with different column sets are never both taken
\* into Deletes: the second one met fails with HeterogeneousDeletes, also when
\* the first one met holds no rows.
C10_HeterogeneousDeletesFail ==
    \A a \in Range(visited), b \in Range(visited) :
        (IsDelete(a) /\ IsDelete(b)) =>
            Range(Manifest[a].frame.columns) = Range(Manifest[b].frame.columns)


(***************************************************************************)
(* Entries of an unsupported kind.                                         *)
(***************************************************************************)
IsOther(j) == Manifest[j].data_file_type \notin {"write", "delete"}
HasOther == \E j \in 1..Len(Manifest) : IsOther(j)
NewestOther == CHOOSE j \in 1..Len(Manifest) :
                   IsOther(j) /\ \A k \in (j + 1)..Len(Manifest) : ~IsOther(k)
Ended == pc \in {"done", "error"}

\* C11 as stated: a manifest holding an entry that is neither WRITE nor
\* DELETE makes to_pd end in UnknownFragmentKind.  The errors of the engine
\* and of the key lookup are left aside here, so that what refutes the
\* statement is a failure the manifest itself causes before the entry is
\* reached.
C11_AlwaysUnknownFragmentKind ==
    (HasOther /\ Ended /\ err \notin {"KeyError", "EngineError"})
        => (pc = "error" /\ err = "UnknownFragmentKind")

\* C11, amended: with an entry that is neither WRITE nor DELETE in the
\* manifest, to_pd never returns a relation, whatever was collected before;
\* and when the plan compiled and every entry newer than the newest such
\* entry has been processed the failure is UnknownFragmentKind.
C11_NoRelationAndUnknownKindWhenReached ==
    HasOther =>
        /\ pc # "done"
        /\ result = EmptyFrame
        /\ (/\ pc = "error"
            /\ _construct_sql(self).err = ""
            /\ Len(visited) = Len(Manifest) - NewestOther)
               => err = "UnknownFragmentKind"

C11_Witness ==
    /\ pc = "error"
    /\ err = "UnknownFragmentKind"
    /\ Len(partition_results) = 2
    /\ \A k \in 1..2 : Len(partition_results[k].df.rows) > 0
    /\ result = EmptyFrame

(***************************************************************************)
(* Manifests without a WRITE.                                              *)
(***************************************************************************)
OnlyDeletesOfOneColumnSet ==
    /\ \A j \in 1..Len(Manifest) : IsDelete(j)
    /\ \A j, k \in 1..Len(Manifest) :
           Range(Manifest[j].frame.columns) = Range(Manifest[k].frame.columns)

\* C12: over a manifest with no WRITE (empty, or DELETEs that all have one
\* column set) to_pd raises nothing, collects no partition result, and the
\* relation it returns is the empty frame.
C12_NoWriteGivesEmptyRelation ==
    OnlyDeletesOfOneColumnSet =>
        /\ pc \in {"start", "loop", "done"}
        /\ err = ""
        /\ partition_results = <<>>
        /\ result = EmptyFrame
        /\ (pc = "loop" => i <= Len(Manifest))

C12_Witness ==
    /\ pc = "done"
    /\ OnlyDeletesOfOneColumnSet
    /\ Len(Manifest) = 3
    /\ \A j \in 1..3 : Len(Manifest[j].frame.rows) > 0
    /\ Len(deletes.rows) = 3
    /\ result = EmptyFrame

(***************************************************************************)
(* The engine session.                                                     *)
(***************************************************************************)
\* C13: when to_pd has ended, with a relation or with any failure, the
\* connection opened at its start is no longer open.
C13_SessionReleasedOnExit ==
    Ended => conn # "open"

(***************************************************************************)
(* Cancellation.                                                           *)
(***************************************************************************)
\* C14: once cancellation has been signalled and a fragment is still to be
\* processed, the next step of to_pd handles no further fragment: it ends
\* the call with Cancelled and releases the session.
C14_CancellationEndsTraversal ==
    [][(cancel_requested /\ pc = "loop" /\ i < Len(self._data_list))
          => (/\ visited' = visited
              /\ pc' = "error"
              /\ err' = "Cancelled"
              /\ conn' # "open")]_vars

(***************************************************************************)
(* String literals.                                                        *)
(***************************************************************************)
\* s holds a single quote that no neighbouring quote could be escaping
LoneQuote(s) ==
    \E k \in 1..Len(s) :
        /\ s[k] = "'"
        /\ (k = 1 \/ s[k - 1] # "'")
        /\ (k = Len(s) \/ s[k + 1] # "'")

HasLoneQuoteArg(p) ==
    \E k \in 1..Len(p._arg) : p._arg[k].t = "str" /\ LoneQuote(p._arg[k].s)

\* C15: rendering a leaf one of whose string arguments (scalar, BETWEEN
\* bound, IN element) holds an unescaped single quote fails with
\* InvalidLiteral and yields no clause.
C15_QuoteInStringIsRejected ==
    (pc = "rendered" /\ HasLoneQuoteArg(pred))
        => (err = "InvalidLiteral" /\ where_clause = <<>>)

(***************************************************************************)
(* An empty list of deduplication keys.                                    *)
(***************************************************************************)
RECURSIVE ToPdWithoutKeys(_, _, _)
\* the outcome of the loop of to_pd from iteration k on when
\* deduplication_keys is None, by the same steps as ToPdWrite, ToPdDelete,
\* ToPdOther and ToPdFinish take: ds is the deletes frame, results the
\* partition results
ToPdWithoutKeys(k, ds, results) ==
    IF k = Len(self._data_list)
    THEN [err |-> "",
          result |-> IF Len(results) = 0 THEN EmptyFrame
                     ELSE ConcatAll(RestoreOrder(results))]
    ELSE LET e == Traversal(self._data_list)[k + 1]
             table_name == "t" \o ToString(k)
         IN IF e.data_file_type = "write"
            THEN LET q == Execute(Replace(select_clause, _table_name_placeholder, table_name),
                                  Replace(where_clause, _table_name_placeholder, table_name),
                                  e.frame,
                                  ds,
                                  SelectSeq(ds.columns,
                                            LAMBDA c : c # _indicator_column_name),
                                  EmptyFrame, <<>>, JoinDeletes(ds), FALSE)
                 IN IF q.err # "" THEN [err |-> q.err, result |-> EmptyFrame]
                    ELSE ToPdWithoutKeys(k + 1, ds, Append(results, q.df))
            ELSE IF e.data_file_type = "delete"
            THEN LET d == Assign(e.frame, _indicator_column_name, 1)
                 IN IF ColumnsDiffer(ds, d)
                    THEN [err |-> "HeterogeneousDeletes", result |-> EmptyFrame]
                    ELSE ToPdWithoutKeys(k + 1, Concat(ds, d), results)
            ELSE [err |-> "UnknownFragmentKind", result |-> EmptyFrame]

EmptyKeyList == ~deduplication_keys.is_none /\ deduplication_keys.keys = <<>>

\* C16: a deduplication key list that is present but empty gives the outcome
\* of the same call without deduplication keys: the same failure or the
\* same relation.
C16_EmptyKeyListIsNoKeyList ==
    (Ended /\ EmptyKeyList /\ select_clause # <<>>)
        => LET o == ToPdWithoutKeys(0, EmptyFrame, <<>>)
           IN /\ err = o.err
              /\ result = o.result

(***************************************************************************)
(* DELETE fragments against older and newer WRITE fragments.               *)
(***************************************************************************)
\* how often x occurs in the sequence
Count(seq, x) == Cardinality({k \in 1..Len(seq) : seq[k] = x})

\* the rows of the WRITE at position p that no later DELETE matches, over cols
Undeleted(p, cols) ==
    Over(SelectSeq(Manifest[p].frame.rows, LAMBDA r : ~DeletedAfter(r, p)), cols)

\* C17: once to_pd has returned, what it took from the WRITE at each position
\* holds no row that a DELETE at a later position matches: each row value
\* occurs at most as often as among the unmatched rows of that WRITE.
C17_DeleteSuppressesOlderRows ==
    pc = "done" =>
        \A m \in 1..Len(partition_results) :
            LET df == partition_results[m].df
                kept == Undeleted(partition_results[m].pos, df.columns)
            IN \A n \in 1..Len(df.rows) :
                   Count(df.rows, df.rows[n]) <= Count(kept, df.rows[n])

\* the DELETE at position j holds a key tuple matching r
MatchedBy(r, j) ==
    /\ IsDelete(j)
    /\ \E k \in 1..Len(Manifest[j].frame.rows) :
           Agree(r, Manifest[j].frame.rows[k], Manifest[j].frame.columns)

\* what to_pd took from the WRITE at position p
ResultOf(p) ==
    partition_results[CHOOSE m \in 1..Len(partition_results) :
                          partition_results[m].pos = p].df

\* C18: when a WRITE is about to be processed every tuple of deletes comes
\* from a DELETE at a later position; and once to_pd has returned, a row of
\* a WRITE that satisfies the predicate, is shadowed by no later WRITE and
\* is matched by no later DELETE is in the result, whatever earlier DELETEs
\* match it.
C18_DeleteSparesLaterRows ==
    /\ (pc = "loop" /\ i < Len(Manifest) /\ IsWrite(Position)) =>
           \A k \in 1..Len(deletes.rows) :
               \E j \in (Position + 1)..Len(Manifest) :
                   MatchedBy(deletes.rows[k], j)
    /\ pc = "done" =>
           \A p \in 1..Len(Manifest) :
               IsWrite(p) =>
                   \A k \in 1..Len(Manifest[p].frame.rows) :
                       LET r == Manifest[p].frame.rows[k]
                       IN (Satisfies(r) /\ ~DeletedAfter(r, p) /\ ~ShadowedAfter(r, p))
                              => \E n \in 1..Len(ResultOf(p).rows) :
                                     Agree(r, ResultOf(p).rows[n], ResultOf(p).columns)

C18_Witness ==
    /\ pc = "done"
    /\ \E p \in 2..Len(Manifest) :
           /\ IsWrite(p)
           /\ \E k \in 1..Len(Manifest[p].frame.rows) :
                  LET r == Manifest[p].frame.rows[k]
                  IN /\ \E j \in 1..(p - 1) : MatchedBy(r, j)
                     /\ \E n \in 1..Len(ResultOf(p).rows) :
                            Agree(r, ResultOf(p).rows[n], ResultOf(p).columns)
                     /\ ResultOf(p).columns = Cols

(***************************************************************************)
(* Deduplication across WRITE fragments.                                   *)
(***************************************************************************)
NoDelete == \A j \in 1..Len(Manifest) : ~IsDelete(j)

\* C19: with D present, no DELETE in the manifest and no row selection, once
\* to_pd has returned, what it took from each WRITE is all the rows of that
\* WRITE whose key tuple is in no later WRITE, and nothing else: every key
\* is served by the newest WRITE that holds it, with all its rows.
C19_NewestWriteServesEachKey ==
    (pc = "done" /\ DPresent /\ NoDelete /\ row_args(self) = <<>>) =>
        \A p \in 1..Len(Manifest) :
            ResultOf(p).rows =
                Over(SelectSeq(Manifest[p].frame.rows,
                               LAMBDA r : ~ShadowedAfter(r, p)),
                     ResultOf(p).columns)

C19_Witness ==
    /\ pc = "done"
    /\ DPresent
    /\ row_args(self) = <<>>
    /\ Len(Manifest) = 3
    /\ \A j \in 1..3 : IsWrite(j)
    /\ Manifest[3].frame.rows = <<Row(1, 1), Row(1, 2)>>
    /\ Manifest[2].frame.rows = <<Row(2, 1)>>
    /\ Manifest[1].frame.rows = <<Row(1, 2), Row(2, 2)>>
    /\ result.rows = <<Row(2, 1), Row(1, 1), Row(1, 2)>>

\* a WRITE after position p holds a row with r's deduplication key that a
\* DELETE after that WRITE matches
ShadowedByDeletedRow(r, p) ==
    \E j \in (p + 1)..Len(Manifest) :
        /\ IsWrite(j)
        /\ \E k \in 1..Len(Manifest[j].frame.rows) :
               /\ Agree(r, Manifest[j].frame.rows[k], deduplication_keys.keys)
               /\ DeletedAfter(Manifest[j].frame.rows[k], j)

\* C20: with D present, once to_pd has returned, a row of a WRITE whose key
\* tuple is that of a row of a later WRITE is not in the result, also when
\* that later row is itself matched by a DELETE after it.
C20_DeletedRowStillShadows ==
    (pc = "done" /\ DPresent) =>
        \A m \in 1..Len(partition_results) :
            LET df == partition_results[m].df
                p == partition_results[m].pos
                kept == Over(SelectSeq(Manifest[p].frame.rows,
                                       LAMBDA r : ~ShadowedByDeletedRow(r, p)),
                             df.columns)
            IN \A n \in 1..Len(df.rows) :
                   Count(df.rows, df.rows[n]) <= Count(kept, df.rows[n])

(***************************************************************************)
(* Deduplication under a column selection.                                 *)
(***************************************************************************)
\* D is present and the columns selected include every column of D
RetainsD == DPresent /\ Range(deduplication_keys.keys) \subseteq Range(LastProjection)

\* C21: with D present and every column of D selected, at every point of
\* to_pd no row collected from one WRITE agrees on all columns of D with a
\* row collected from another WRITE, whatever the row selection and the
\* DELETEs; the returned relation is the concatenation of those rows.
C21_KeyInOneFragmentOnly ==
    RetainsD =>
        /\ \A m, n \in 1..Len(partition_results) :
               m # n =>
                   \A a \in 1..Len(partition_results[m].df.rows) :
                       \A b \in 1..Len(partition_results[n].df.rows) :
                           ~Agree(partition_results[m].df.rows[a],
                                  partition_results[n].df.rows[b],
                                  deduplication_keys.keys)
        /\ pc = "done" =>
               Len(result.rows) = Len(Flatten([m \in 1..Len(partition_results) |->
                                                  partition_results[m].df.rows]))

C21_Witness ==
    /\ pc = "done"
    /\ RetainsD
    /\ column_args(self) # <<>>
    /\ row_args(self) # <<>>
    /\ \E j \in 1..Len(Manifest) : IsDelete(j) /\ Len(Manifest[j].frame.rows) > 0
    /\ \E p, q \in 1..Len(Manifest) :
           /\ p < q /\ IsWrite(p) /\ IsWrite(q)
           /\ Len(Manifest[p].frame.rows) = 1
           /\ Len(Manifest[q].frame.rows) = 1
           /\ Agree(Manifest[p].frame.rows[1], Manifest[q].frame.rows[1],
                    deduplication_keys.keys)
           /\ Len(ResultOf(q).rows) = 1
           /\ ResultOf(p).rows = <<>>

RECURSIVE ToPdUnprojected(_, _, _, _)
\* the outcome of the loop of to_pd from iteration k on for the handle
\* without its column selections (select clause "SELECT t.*"), by the same
\* steps as ToPdWrite, ToPdDelete, ToPdOther and ToPdFinish take: ds is the
\* deletes frame, seen is deduplication_keys_seen, results the partition
\* results
ToPdUnprojected(k, ds, seen, results) ==
    IF k = Len(self._data_list)
    THEN [err |-> "",
          result |-> IF Len(results) = 0 THEN EmptyFrame
                     ELSE ConcatAll(RestoreOrder(results))]
    ELSE LET e == Traversal(self._data_list)[k + 1]
             table_name == "t" \o ToString(k)
         IN IF e.data_file_type = "write"
            THEN LET q == Execute(<<"SELECT", table_name, "*">>,
                                  Replace(where_clause, _table_name_placeholder, table_name),
                                  e.frame,
                                  ds,
                                  SelectSeq(ds.columns,
                                            LAMBDA c : c # _indicator_column_name),
                                  seen,
                                  deduplication_keys.keys,
                                  JoinDeletes(ds),
                                  JoinSeen(seen))
                     src == SeenSource(q.df, e.frame)
                 IN IF q.err # "" THEN [err |-> q.err, result |-> EmptyFrame]
                    ELSE ToPdUnprojected(
                             k + 1, ds,
                             IF deduplication_keys.is_none THEN seen
                             ELSE ExtendSeen(seen,
                                             Assign(Project(src, deduplication_keys.keys),
                                                    _indicator_column_name, 1)),
                             Append(results, q.df))
            ELSE IF e.data_file_type = "delete"
            THEN LET d == Assign(e.frame, _indicator_column_name, 1)
                 IN IF ColumnsDiffer(ds, d)
                    THEN [err |-> "HeterogeneousDeletes", result |-> EmptyFrame]
                    ELSE ToPdUnprojected(k + 1, Concat(ds, d), seen, results)
            ELSE [err |-> "UnknownFragmentKind", result |-> EmptyFrame]

\* a relation restricted to the columns selected
Restricted(df) == IF df = EmptyFrame THEN EmptyFrame ELSE Project(df, LastProjection)

\* C22: to_pd of a handle with a column selection ends as to_pd of the same
\* handle without it: it fails where that one fails, and where that one
\* returns a relation it returns that relation restricted to the selected
\* columns, also when the selection drops a column of D or of a DELETE.
C22_ProjectionCommutes ==
    (Ended /\ column_args(self) # <<>> /\ select_clause # <<>>) =>
        LET o == ToPdUnprojected(0, EmptyFrame, EmptyFrame, <<>>)
        IN IF o.err # "" THEN pc = "error" /\ err = o.err
           ELSE pc = "done" /\ result = Restricted(o.result)

=============================================================================
